---- MODULE Spec2Model ----
(***************************************************************************)
(* Sherlock AI: the capture / analyze / fallback pipeline.                 *)
(*                                                                         *)
(*   App (src/App.tsx)                 isAnalyzing, currentAnalysis,       *)
(*                                     error, memory; handleCapture,       *)
(*                                     handleReset                         *)
(*   CameraHUD (src/unnamed/part_001)  isActive, previewUrl,               *)
(*                                     permissionError, isInitializing,    *)
(*                                     the video element's srcObject;      *)
(*                                     setupCamera, stopCamera, handleScan,*)
(*                                     handleFileUpload, handleFullReset   *)
(*   geminiService                     analyzeEvidence, callGemini         *)
(*   (src/services/geminiService.ts)                                       *)
(*                                                                         *)
(* One action is one event-loop task: a DOM event handler run to its       *)
(* first await, or the continuation run when an awaited promise settles.   *)
(* React state set in a task is visible to the next task.                  *)
(***************************************************************************)
EXTENDS Integers, Sequences, FiniteSets, TLC

\* ------------------------------------------------------------------ bounds

\* analyzeEvidence invocations that may be pending at once
MaxCalls == 2
\* getUserMedia requests issued over a run
MaxGum == 2
\* FileReaders that may be reading at once
MaxReaders == 1
\* distinct observation strings the model can propose: Obs(1)..Obs(NumStr)
NumStr == 12

\* ------------------------------------------------------- program constants

\* App.tsx:44  .slice(-10)
MemoryCap == 10

\* part_001:64  1024 / video.videoWidth
MaxRaster == 1024

\* null, for a state holding an object (a record here) or null
Null == [tag |-> "null"]
\* null, for a state holding a string or null
NullStr == "null"

PrimaryModel == "gemini-3-pro-preview"
SecondaryModel == "gemini-3-flash-preview"

\* `SH-${uuidv4().substring(0, 8)}`: one token for the session
sessionId == "SH-1a2b3c4d"

\* the i-th observation string
Obs(i) == ToString(i)

\* ------------------------------------------------------------ session memory

Contains(s, x) == \E i \in 1..Len(s) : s[i] = x

IsUnique(s) == \A i, j \in 1..Len(s) : s[i] = s[j] => i = j

Range(s) == {s[i] : i \in 1..Len(s)}

\* Set.prototype.add for each element of s in turn: a Set iterates in
\* insertion order, and adding a value already present leaves it in place
RECURSIVE AddAll(_, _)
AddAll(set, s) ==
  IF s = <<>> THEN set
  ELSE AddAll(IF Contains(set, Head(s)) THEN set ELSE Append(set, Head(s)), Tail(s))

\* [...new Set(s)]
SetSpread(s) == AddAll(<<>>, s)

\* a slice that keeps one element too many
SliceLastOffByOne(s, n) ==
  IF Len(s) <= n + 1 THEN s ELSE SubSeq(s, Len(s) - n, Len(s))

\* Array.prototype.slice(-n)
SliceLast(s, n) ==
  IF Len(s) <= n THEN s ELSE SubSeq(s, Len(s) - n + 1, Len(s))

\* an updater that keeps the first entries instead of the last: .slice(0, 10)
MergeKeepsOldest(prev, proposed) ==
  SubSeq(SetSpread(prev \o proposed), 1,
         IF Len(SetSpread(prev \o proposed)) <= MemoryCap
         THEN Len(SetSpread(prev \o proposed)) ELSE MemoryCap)

\* an updater that appends without the Set: [...prev, ...proposed].slice(-10)
MergeNoSet(prev, proposed) == SliceLast(prev \o proposed, MemoryCap)

\* the updater passed to setMemory
Merge(prev, proposed) == SliceLast(SetSpread(prev \o proposed), MemoryCap)

\* ------------------------------------------------------------ geminiService

\* An error thrown by the SDK or by callGemini: its status (0 when the error
\* has none) and the marker substrings its message contains.
ApiError(status, message) == [status |-> status, message |-> message]

\* new Error("Deductive reasoning yielded incoherent structure.")
IncoherentError == ApiError(0, {"incoherent structure"})

\* err.message?.includes('RESOURCE_EXHAUSTED') || err.status === 429
IsQuotaError(err) == "RESOURCE_EXHAUSTED" \in err.message \/ err.status = 429

\* err.message?.includes('INVALID_ARGUMENT') || err.status === 400
IsArgError(err) == "INVALID_ARGUMENT" \in err.message \/ err.status = 400

\* the strings of the model that contain a '/'
HasSlash(s) == s \in {"image/jpeg", "image/png"}

\* (mimeType && mimeType.includes('/')) ? mimeType : 'image/jpeg'
ValidMimeType(mimeType) == IF HasSlash(mimeType) THEN mimeType ELSE "image/jpeg"

\* The prompt is a fixed template around ${sessionId}; it is modelled by what
\* the template renders there, a sequence of strings: an array renders as its
\* elements joined by ',', a string as itself.
RenderArray(a) == a
RenderString(str) == <<str>>
Prompt(rendered) == [session |-> rendered]

\* What generateContent settles with.
Responded(resp) == [kind |-> "response", resp |-> resp]
Rejected(err) == [kind |-> "error", err |-> err]
Pending == [kind |-> "pending"]

\* How a promise settles.
Return(v) == [ok |-> TRUE, value |-> v]
Throw(e) == [ok |-> FALSE, err |-> e]

\* JSON values, as far as callGemini looks into them
Undefined == [t |-> "undefined"]
JsonNull == [t |-> "null"]
Num(v) == [t |-> "number", v |-> v]
Str(v) == [t |-> "string", v |-> v]
NaN == [t |-> "nan"]
List(items) == [t |-> "array", items |-> items]

\* !v, for the values of the model: undefined and null are falsy, the
\* strings, arrays and objects of the model are truthy
Falsy(v) == v.t \in {"undefined", "null"}

\* String(v) of a score
String(v) == IF v.t = "null" THEN "null" ELSE v.v

\* parseFloat(str): the number the string starts with, or NaN
ParseFloat(str) ==
  IF str \in {"0.5", "0.7", "0.9"} THEN Num(str)
  ELSE IF str = "0.9 (high)" THEN Num("0.9")
  ELSE NaN

\* The text of a response is a sequence of tokens: a code fence, '{', '}',
\* the members between a pair of braces, or other text without a brace.
Tok(str) == [tok |-> str]
FenceJson == Tok("fence json")
Fence == Tok("fence")
LBrace == Tok("{")
RBrace == Tok("}")
Members(m) == [tok |-> "members", members |-> m]

\* the members of {}
EmptyMembers ==
  [scan_data |-> Undefined, deductions |-> Undefined,
   has_memory |-> FALSE, session_memory |-> <<>>]

\* response.text || '{}'
ResponseText(resp) == IF resp.text = <<>> THEN <<LBrace, RBrace>> ELSE resp.text

\* the two text.replace calls that delete the code fences, and trim()
StripFences(text) == SelectSeq(text, LAMBDA t : t \notin {FenceJson, Fence})

\* indexOf / lastIndexOf, 0-based, -1 when there is none
IndexOf(text, t) ==
  IF \E i \in 1..Len(text) : text[i] = t
  THEN (CHOOSE i \in 1..Len(text) : text[i] = t /\ \A j \in 1..(i - 1) : text[j] # t) - 1
  ELSE -1
LastIndexOf(text, t) ==
  IF \E i \in 1..Len(text) : text[i] = t
  THEN (CHOOSE i \in 1..Len(text) : text[i] = t /\ \A j \in (i + 1)..Len(text) : text[j] # t) - 1
  ELSE -1

\* String.prototype.substring(a, b): the arguments are swapped when a > b
Substring(text, a, b) ==
  IF a <= b THEN SubSeq(text, a + 1, b) ELSE SubSeq(text, b + 1, a)

\* the text handed to JSON.parse
ExtractJson(text) ==
  LET stripped == StripFences(text)
      firstBrace == IndexOf(stripped, LBrace)
      lastBrace == LastIndexOf(stripped, RBrace)
  IN IF firstBrace # -1 /\ lastBrace # -1
     THEN Substring(stripped, firstBrace, lastBrace + 1)
     ELSE stripped

\* JSON.parse: an object, the texts '[]', 'null' and '42', or a SyntaxError
Parsed(kind, members) == [ok |-> TRUE, kind |-> kind, members |-> members]
SyntaxError == [ok |-> FALSE]
JsonParse(text) ==
  IF text = <<LBrace, RBrace>> THEN Parsed("object", EmptyMembers)
  ELSE IF Len(text) = 3 /\ text[1] = LBrace /\ text[3] = RBrace
          /\ text[2].tok = "members"
  THEN Parsed("object", text[2].members)
  ELSE IF text = <<Tok("[]")>> THEN Parsed("array", EmptyMembers)
  ELSE IF text = <<Tok("null")>> THEN Parsed("null", EmptyMembers)
  ELSE IF text = <<Tok("42")>> THEN Parsed("number", EmptyMembers)
  ELSE SyntaxError

\* the neutral default scan_data
DefaultScanData ==
  [t |-> "object", gender |-> "Unknown", age_range |-> "Unknown",
   environment |-> "Unknown", attention_score |-> Num("0.5"),
   posture_score |-> Num("0.5"), stance |-> "Indeterminate",
   balance |-> "Steady"]

\* the body of scoreKeys.forEach for one key
CoerceScore(score) ==
  IF score.t = "undefined" THEN score
  ELSE IF ParseFloat(String(score)).t = "nan" THEN Num("0.5")
  ELSE ParseFloat(String(score))

\* scan_data after the default and the score coercion; a truthy scan_data
\* that is no object has no score properties and is left as it is
NormalizeScanData(scan_data) ==
  LET sd == IF Falsy(scan_data) THEN DefaultScanData ELSE scan_data
  IN IF sd.t = "object"
     THEN [sd EXCEPT !.attention_score = CoerceScore(@),
                     !.posture_score = CoerceScore(@)]
     ELSE sd

\* a loop body that forgets logic_steps
NormalizeDeductionEvidenceOnly(d) ==
  [d EXCEPT !.evidence = IF Falsy(@) THEN List(<<>>) ELSE @]

\* the body of parsed.deductions.forEach
NormalizeDeduction(d) ==
  [d EXCEPT !.evidence = IF Falsy(@) THEN List(<<>>) ELSE @,
            !.logic_steps = IF Falsy(@) THEN List(<<>>) ELSE @]

\* deductions after the Array.isArray test and the loop
NormalizeDeductions(deductions) ==
  IF Falsy(deductions) \/ deductions.t # "array" THEN List(<<>>)
  ELSE List([i \in 1..Len(deductions.items) |->
               NormalizeDeduction(deductions.items[i])])

\* new TypeError: reading or creating a property of null or of a primitive
TypeError == ApiError(0, {"TypeError"})

\* The normalization throws a TypeError when the parsed value is null or a
\* number (parsed.scan_data cannot be read, or cannot be created in strict
\* mode), and when an element of deductions is null (d.evidence).
NormalizationThrows(parsed) ==
  \/ parsed.kind \in {"null", "number"}
  \/ /\ parsed.members.deductions.t = "array"
     /\ \E i \in 1..Len(parsed.members.deductions.items) :
           parsed.members.deductions.items[i].t = "null"

\* the normalized SherlockAnalysis callGemini returns
Normalize(parsed) ==
  [tag |-> "analysis", kind |-> parsed.kind,
   scan_data |-> NormalizeScanData(parsed.members.scan_data),
   deductions |-> NormalizeDeductions(parsed.members.deductions),
   has_memory |-> parsed.members.has_memory,
   session_memory |-> parsed.members.session_memory]

\* Response bodies of the model: a complete scan_data, one deduction
CompleteScanData ==
  [t |-> "object", gender |-> "Male", age_range |-> "30-40",
   environment |-> "Office", attention_score |-> Num("0.7"),
   posture_score |-> Num("0.9"), stance |-> "Upright", balance |-> "Steady"]
\* an element of an evidence list or of a logic_steps list, by its text
Evidence(description) == [description |-> description]
Deduction(title, evidence, logic_steps) ==
  [t |-> "object", title |-> title, evidence |-> evidence, logic_steps |-> logic_steps]
CompleteDeduction(title) ==
  Deduction(title, List(<<Evidence("e1")>>), List(<<Evidence("step1")>>))

\* a response whose text is prose that JSON.parse rejects
Garbage == [text |-> <<Tok("I cannot comply")>>]
\* a response whose text is a JSON object with the given members
JsonText(m) == [text |-> <<LBrace, Members(m), RBrace>>]
\* a well-formed response with a session_memory list, and one without
JsonObject(session_memory) ==
  JsonText([scan_data |-> CompleteScanData,
            deductions |-> List(<<CompleteDeduction("d1")>>),
            has_memory |-> TRUE, session_memory |-> session_memory])
JsonObjectNoMemory ==
  JsonText([scan_data |-> CompleteScanData,
            deductions |-> List(<<CompleteDeduction("d1")>>),
            has_memory |-> FALSE, session_memory |-> <<>>])

\* callGemini, from the point generateContent settles with `outcome`
CallGemini(outcome) ==
  IF outcome.kind = "error" THEN Throw(outcome.err)
  ELSE LET parsed == JsonParse(ExtractJson(ResponseText(outcome.resp)))
       IN IF ~parsed.ok THEN Throw(IncoherentError)
          ELSE IF NormalizationThrows(parsed) THEN Throw(TypeError)
          ELSE Return(Normalize(parsed))

\* one generateContent request as callGemini sends it
ModelCall(modelName, base64Image, mimeType, prompt, outcome) ==
  [model |-> modelName, data |-> base64Image, mimeType |-> mimeType,
   prompt |-> prompt, outcome |-> outcome]

\* analyzeEvidence up to its first await: the primary request is in flight
AnalyzeEvidence(base64Image, mimeType, rendered) ==
  LET validMimeType == ValidMimeType(mimeType)
      prompt == Prompt(rendered)
  IN [data |-> base64Image, mimeType |-> validMimeType, prompt |-> prompt,
      log |-> <<ModelCall(PrimaryModel, base64Image, validMimeType, prompt, Pending)>>]

\* a fallback condition that forgets the argument-shape rejection
ShouldFallbackQuotaOnly(err) == IsQuotaError(err)

\* if (isQuotaError || isArgError)
ShouldFallback(err) == IsQuotaError(err) \/ IsArgError(err)

\* a fallback request that drops the image
FallbackCallNoImage(c) == ModelCall(SecondaryModel, "", c.mimeType, c.prompt, Pending)

\* the catch block's request to the secondary model
FallbackCall(c) == ModelCall(SecondaryModel, c.data, c.mimeType, c.prompt, Pending)

\* the log of invocation c once its request in flight has settled with outcome
Settle(c, outcome) == [c.log EXCEPT ![Len(c.log)].outcome = outcome]

\* ------------------------------------------------------------- model inputs

\* A frame of the video: its pixels and the video's intrinsic size
Frame(data, videoWidth, videoHeight) ==
  [data |-> data, videoWidth |-> videoWidth, videoHeight |-> videoHeight]

\* the frame the camera shows when the user scans: the size asked for in
\* getUserMedia's constraints
Frames == {Frame("frame1", 1280, 720)}

\* Math.min(1, 1024 / video.videoWidth), as a fraction
Scale(videoWidth) ==
  IF videoWidth <= MaxRaster
  THEN [num |-> 1, den |-> 1]
  ELSE [num |-> MaxRaster, den |-> videoWidth]

\* canvas.width = n * scale: the canvas keeps the integer part
Scaled(n, scale) == (n * scale.num) \div scale.den

\* the files the user can pick
Files == {[mime |-> "image/png", data |-> "fileA"]}

\* err.name of a getUserMedia rejection
GumErrorNames == {"NotAllowedError", "NotFoundError"}

\* canvas.toDataURL('image/jpeg', 0.8) of a frame drawn on the canvas, whose
\* width and height handleScan has just set
FrameUrl(frame) ==
  [tag |-> "dataurl", mime |-> "image/jpeg", data |-> frame.data,
   width |-> Scaled(frame.videoWidth, Scale(frame.videoWidth)),
   height |-> Scaled(frame.videoHeight, Scale(frame.videoWidth))]

\* FileReader.readAsDataURL(file)
FileUrl(file) == [tag |-> "dataurl", mime |-> file.mime, data |-> file.data]

\* dataUrl.split(',')[1]
SplitData(url) == url.data

\* Obs(i), Obs(i+1), ..., Obs(j)
ObsRun(i, j) == [k \in 1..(j - i + 1) |-> Obs(i + k - 1)]

\* session_memory lists a response can carry: one longer than the cap,
\* one with a repeated entry and an entry of the long list
Proposals ==
  {ObsRun(1, NumStr - 1), <<Obs(NumStr), Obs(1), Obs(NumStr)>>}

Responses == {JsonObject(p) : p \in Proposals} \cup {JsonObjectNoMemory, Garbage}

\* failures of generateContent: 429 by status only, resource exhaustion by
\* message only, 400, a network failure (no status)
ApiErrors ==
  {ApiError(429, {}), ApiError(0, {"RESOURCE_EXHAUSTED"}),
   ApiError(400, {"INVALID_ARGUMENT"}), ApiError(0, {"fetch failed"})}

Outcomes == {Responded(r) : r \in Responses} \cup {Rejected(e) : e \in ApiErrors}

\* ---------------------------------------------------------------- the state

VARIABLES
  \* App
  isAnalyzing, currentAnalysis, error, memory,
  \* CameraHUD
  isActive, previewUrl, permissionError, isInitializing,
  \* videoRef.current.srcObject: 0 (null) or a stream
  srcObject,
  \* TRUE while the stream in srcObject has not fired loadedmetadata
  metadataPending,
  \* the streams getUserMedia has produced, each "live" or "stopped"
  streams,
  \* getUserMedia requests pending, and issued so far
  gumPending, gumIssued,
  \* TRUE until the component tree is torn down
  mounted,
  \* TRUE while the browser's file picker, opened by triggerFileUpload, is up
  pickerOpen,
  \* the files of the FileReaders still reading
  readers,
  \* the pending analyzeEvidence invocations, oldest first
  calls,
  \* the analyzeEvidence promise that settled last, as handleCapture saw it
  settled,
  \* TRUE from a handleFullReset until the user next starts the camera,
  \* picks a file or scans
  afterFullReset,
  \* TRUE from a handleFullReset, a handleFileUpload or the teardown until
  \* setupCamera next runs
  exitedLive

appVars == <<isAnalyzing, currentAnalysis, error, memory>>
hudVars == <<isActive, previewUrl, permissionError, isInitializing>>
mediaVars == <<srcObject, metadataPending, streams, gumPending, gumIssued>>
programVars == <<appVars, hudVars, mediaVars, mounted, pickerOpen, readers, calls, settled>>
vars == <<programVars, afterFullReset, exitedLive>>

QuotaMessage == "The Mind Palace is at maximum capacity (Quota Reached)."
GenericMessage == "Deductive link failed."

\* no analyzeEvidence promise has settled yet
NothingSettled == [log |-> <<>>]

Init ==
  /\ isAnalyzing = FALSE
  /\ currentAnalysis = Null
  /\ error = NullStr
  /\ memory = <<>>
  /\ isActive = FALSE
  /\ previewUrl = Null
  /\ permissionError = NullStr
  /\ isInitializing = FALSE
  /\ srcObject = 0
  /\ metadataPending = FALSE
  /\ streams = <<>>
  /\ gumPending = 0
  /\ gumIssued = 0
  /\ mounted = TRUE
  /\ pickerOpen = FALSE
  /\ readers = <<>>
  /\ calls = <<>>
  /\ settled = NothingSettled
  /\ afterFullReset = FALSE
  /\ exitedLive = FALSE

\* --------------------------------------------------------------- App.tsx

\* handleReset
HandleReset ==
  /\ currentAnalysis' = Null
  /\ error' = NullStr
  /\ isAnalyzing' = FALSE

\* handleCapture up to its await; the memory it passes is the one its
\* closure holds, and it passes sessionId where analyzeEvidence takes mimeType
\* and memory where analyzeEvidence takes sessionId
HandleCapture(base64) ==
  IF isAnalyzing
  THEN UNCHANGED <<isAnalyzing, error, currentAnalysis, calls>>
  ELSE /\ isAnalyzing' = TRUE
       /\ error' = NullStr
       /\ currentAnalysis' = Null
       /\ calls' = Append(calls, AnalyzeEvidence(base64, sessionId, RenderArray(memory)))

\* the message the catch block shows for err
ErrorMessage(err) ==
  IF "QUOTA_EXHAUSTED" \in err.message THEN QuotaMessage ELSE GenericMessage

\* handleCapture after the await returned result: the try block's rest, finally
HandleCaptureTry(result) ==
  /\ currentAnalysis' = result
  /\ memory' = IF result.has_memory
                THEN Merge(memory, result.session_memory)
                ELSE memory
  /\ error' = error
  /\ isAnalyzing' = FALSE

\* a catch block that also clears the memory
HandleCaptureCatchClearsMemory(err) ==
  /\ error' = ErrorMessage(err)
  /\ memory' = <<>>
  /\ currentAnalysis' = currentAnalysis
  /\ isAnalyzing' = FALSE

\* a catch block that swallows the failure
HandleCaptureCatchSwallows(err) ==
  /\ error' = NullStr
  /\ memory' = memory
  /\ currentAnalysis' = currentAnalysis
  /\ isAnalyzing' = FALSE

\* handleCapture after the await threw err: the catch block, finally
HandleCaptureCatch(err) ==
  /\ error' = ErrorMessage(err)
  /\ memory' = memory
  /\ currentAnalysis' = currentAnalysis
  /\ isAnalyzing' = FALSE

\* the sequence s without its i-th element
Without(s, i) == SubSeq(s, 1, i - 1) \o SubSeq(s, i + 1, Len(s))

\* a return whose merge starts from the memory handleCapture's closure held
\* when the capture began
AnalyzeReturnsMergesSnapshot(i, outcome) ==
  LET c == calls[i]
      r == CallGemini(outcome)
  IN /\ r.ok
     /\ calls' = Without(calls, i)
     /\ settled' = [log |-> Settle(c, outcome), result |-> r]
     /\ IF mounted
        THEN /\ currentAnalysis' = r.value
             /\ memory' = IF r.value.has_memory
                           THEN Merge(c.prompt.session, r.value.session_memory)
                           ELSE memory
             /\ error' = error
             /\ isAnalyzing' = FALSE
        ELSE UNCHANGED appVars
     /\ UNCHANGED <<hudVars, mediaVars, mounted, pickerOpen, readers,
                    afterFullReset, exitedLive>>

\* The request in flight of invocation i settles and callGemini returns:
\* analyzeEvidence returns the value to handleCapture. (A state setter of a
\* component that is no longer mounted does nothing.)
AnalyzeReturns(i, outcome) ==
  LET c == calls[i]
      r == CallGemini(outcome)
  IN /\ r.ok
     /\ calls' = Without(calls, i)
     /\ settled' = [log |-> Settle(c, outcome), result |-> r]
     /\ IF mounted THEN HandleCaptureTry(r.value) ELSE UNCHANGED appVars
     /\ UNCHANGED <<hudVars, mediaVars, mounted, pickerOpen, readers,
                    afterFullReset, exitedLive>>

\* The primary request of invocation i fails with a retryable condition:
\* the catch block sends the same request to the secondary model.
AnalyzeFallback(i, outcome) ==
  LET c == calls[i]
      r == CallGemini(outcome)
  IN /\ Len(c.log) = 1
     /\ ~r.ok
     /\ ShouldFallback(r.err)
     /\ calls' = [calls EXCEPT ![i].log = Append(Settle(c, outcome), FallbackCall(c))]
     /\ UNCHANGED <<appVars, hudVars, mediaVars, mounted, pickerOpen, readers,
                    settled, afterFullReset, exitedLive>>

\* The primary request fails with any other condition, or the secondary
\* request fails: analyzeEvidence throws the error to handleCapture.
AnalyzeThrows(i, outcome) ==
  LET c == calls[i]
      r == CallGemini(outcome)
  IN /\ ~r.ok
     /\ Len(c.log) = 1 => ~ShouldFallback(r.err)
     /\ calls' = Without(calls, i)
     /\ settled' = [log |-> Settle(c, outcome), result |-> r]
     /\ IF mounted THEN HandleCaptureCatch(r.err) ELSE UNCHANGED appVars
     /\ UNCHANGED <<hudVars, mediaVars, mounted, pickerOpen, readers,
                    afterFullReset, exitedLive>>

\* ------------------------------------------------------------- CameraHUD

\* stopCamera
StopCamera ==
  /\ streams' = IF srcObject # 0
                 THEN [streams EXCEPT ![srcObject] = "stopped"]
                 ELSE streams
  /\ srcObject' = 0
  /\ metadataPending' = FALSE
  /\ isActive' = FALSE

\* setupCamera up to its await: the getUserMedia request is pending
SetupCamera ==
  /\ gumIssued < MaxGum
  /\ permissionError' = NullStr
  /\ isInitializing' = TRUE
  /\ previewUrl' = Null
  /\ HandleReset
  /\ gumPending' = gumPending + 1
  /\ gumIssued' = gumIssued + 1
  /\ afterFullReset' = FALSE
  /\ exitedLive' = FALSE
  /\ UNCHANGED <<memory, isActive, srcObject, metadataPending, streams,
                 mounted, pickerOpen, readers, calls, settled>>

\* a handleScan whose static branch does not look at analysisResults
HandleScanIgnoresResults(frame) ==
  IF isAnalyzing THEN UNCHANGED programVars
  ELSE IF isActive
  THEN /\ previewUrl' = FrameUrl(frame)
       /\ StopCamera
       /\ HandleCapture(SplitData(FrameUrl(frame)))
       /\ UNCHANGED <<memory, permissionError, isInitializing, gumPending,
                      gumIssued, mounted, pickerOpen, readers, settled>>
  ELSE IF previewUrl # Null
  THEN /\ HandleCapture(SplitData(previewUrl))
       /\ UNCHANGED <<memory, hudVars, mediaVars, mounted, pickerOpen, readers, settled>>
  ELSE UNCHANGED programVars

\* handleScan with `frame` on screen
HandleScan(frame) ==
  IF isAnalyzing THEN UNCHANGED programVars
  ELSE IF isActive
  THEN \* live video scan
       /\ previewUrl' = FrameUrl(frame)
       /\ StopCamera
       /\ HandleCapture(SplitData(FrameUrl(frame)))
       /\ UNCHANGED <<memory, permissionError, isInitializing, gumPending,
                      gumIssued, mounted, pickerOpen, readers, settled>>
  ELSE IF previewUrl # Null /\ currentAnalysis = Null
  THEN \* static preview scan
       /\ HandleCapture(SplitData(previewUrl))
       /\ UNCHANGED <<memory, hudVars, mediaVars, mounted, pickerOpen, readers, settled>>
  ELSE UNCHANGED programVars

\* what the JSX renders
LandingVisible == ~isActive /\ previewUrl = Null /\ permissionError = NullStr
ErrorPanelVisible == permissionError # NullStr
\* the HUD controls (z-30) lie under the error panel (z-40, inset-0)
ControlsVisible == (isActive \/ previewUrl # Null) /\ ~ErrorPanelVisible
ClearVisible == ControlsVisible /\ (previewUrl # Null \/ currentAnalysis # Null)
ScanEnabled == ControlsVisible /\ currentAnalysis = Null /\ ~isAnalyzing

\* START CAMERA FEED
ClickStartCamera == mounted /\ ~pickerOpen /\ LandingVisible /\ ~isInitializing /\ SetupCamera

\* Retry Connection
ClickRetry == mounted /\ ~pickerOpen /\ ErrorPanelVisible /\ SetupCamera

\* the round button, onClick={isActive ? handleScan : setupCamera}
ClickScan(frame) ==
  /\ mounted
  /\ ~pickerOpen
  /\ ScanEnabled
  /\ isActive
  /\ Len(calls) < MaxCalls
  /\ HandleScan(frame)
  /\ afterFullReset' = FALSE
  /\ UNCHANGED exitedLive

ClickScanInactive == mounted /\ ~pickerOpen /\ ScanEnabled /\ ~isActive /\ SetupCamera

\* LOAD EVIDENCE (ASSET): triggerFileUpload opens the file picker; while it
\* is up the page takes no other click
TriggerFileUpload ==
  /\ mounted
  /\ ~pickerOpen
  /\ LandingVisible
  /\ Len(readers) < MaxReaders
  /\ pickerOpen' = TRUE
  /\ UNCHANGED <<appVars, hudVars, mediaVars, mounted, readers, calls, settled,
                 afterFullReset, exitedLive>>

\* the picker is dismissed without a file: no change event, or no files[0]
CancelFileUpload ==
  /\ pickerOpen
  /\ pickerOpen' = FALSE
  /\ UNCHANGED <<appVars, hudVars, mediaVars, mounted, readers, calls, settled,
                 afterFullReset, exitedLive>>

\* a file is picked: handleFileUpload
HandleFileUpload(file) ==
  /\ pickerOpen
  /\ pickerOpen' = FALSE
  /\ StopCamera
  /\ HandleReset
  /\ readers' = Append(readers, file)
  /\ afterFullReset' = FALSE
  /\ exitedLive' = TRUE
  /\ UNCHANGED <<memory, previewUrl, permissionError, isInitializing,
                 gumPending, gumIssued, mounted, calls, settled>>

\* reader.onload
ReaderLoad(i) ==
  /\ previewUrl' = IF mounted THEN FileUrl(readers[i]) ELSE previewUrl
  /\ readers' = Without(readers, i)
  /\ UNCHANGED <<appVars, isActive, permissionError, isInitializing,
                 mediaVars, mounted, pickerOpen, calls, settled,
                 afterFullReset, exitedLive>>

\* Clear: handleFullReset
HandleFullReset ==
  /\ mounted
  /\ ~pickerOpen
  /\ ClearVisible
  /\ StopCamera
  /\ previewUrl' = Null
  /\ HandleReset
  /\ afterFullReset' = TRUE
  /\ exitedLive' = TRUE
  /\ UNCHANGED <<memory, permissionError, isInitializing, gumPending,
                 gumIssued, mounted, pickerOpen, readers, calls, settled>>

\* getUserMedia resolves with a new stream: if (videoRef.current) it is
\* attached to the video element, replacing whatever srcObject held;
\* videoRef.current is null once the component is torn down
GetUserMediaResolves ==
  /\ gumPending > 0
  /\ gumPending' = gumPending - 1
  /\ streams' = Append(streams, "live")
  /\ srcObject' = IF mounted THEN Len(streams) + 1 ELSE srcObject
  /\ metadataPending' = IF mounted THEN TRUE ELSE metadataPending
  /\ UNCHANGED <<appVars, hudVars, gumIssued, mounted, pickerOpen, readers,
                 calls, settled, afterFullReset, exitedLive>>

\* a catch block that leaves the HUD initializing
GetUserMediaRejectsStaysInitializing(name) ==
  /\ gumPending > 0
  /\ gumPending' = gumPending - 1
  /\ IF mounted
     THEN /\ isInitializing' = isInitializing
          /\ permissionError' = IF name = "NotAllowedError"
                                 THEN "Permission Denied"
                                 ELSE "Hardware Failure"
          /\ isActive' = FALSE
     ELSE UNCHANGED <<isInitializing, permissionError, isActive>>
  /\ UNCHANGED <<appVars, previewUrl, srcObject, metadataPending, streams,
                 gumIssued, mounted, pickerOpen, readers, calls, settled,
                 afterFullReset, exitedLive>>

\* getUserMedia rejects: the catch block
GetUserMediaRejects(name) ==
  /\ gumPending > 0
  /\ gumPending' = gumPending - 1
  /\ IF mounted
     THEN /\ isInitializing' = FALSE
          /\ permissionError' = IF name = "NotAllowedError"
                                 THEN "Permission Denied"
                                 ELSE "Hardware Failure"
          /\ isActive' = FALSE
     ELSE UNCHANGED <<isInitializing, permissionError, isActive>>
  /\ UNCHANGED <<appVars, previewUrl, srcObject, metadataPending, streams,
                 gumIssued, mounted, pickerOpen, readers, calls, settled,
                 afterFullReset, exitedLive>>

\* video.onloadedmetadata for the stream in srcObject
LoadedMetadata ==
  /\ mounted
  /\ srcObject # 0
  /\ metadataPending
  /\ metadataPending' = FALSE
  /\ isActive' = TRUE
  /\ isInitializing' = FALSE
  /\ UNCHANGED <<appVars, previewUrl, permissionError, srcObject, streams,
                 gumPending, gumIssued, mounted, pickerOpen, readers, calls,
                 settled, afterFullReset, exitedLive>>

\* The component tree is torn down: the effect's cleanup runs stopCamera.
\* Whether videoRef.current still holds the video element when a passive
\* effect's cleanup runs depends on the React release the build links
\* (refs are detached before passive cleanups from React 17 on), so both
\* outcomes are taken.
Unmount(refAttached) ==
  /\ mounted
  /\ mounted' = FALSE
  /\ pickerOpen' = FALSE
  /\ IF refAttached
     THEN StopCamera
     ELSE UNCHANGED <<streams, srcObject, metadataPending, isActive>>
  /\ exitedLive' = TRUE
  /\ UNCHANGED <<appVars, previewUrl, permissionError, isInitializing,
                 gumPending, gumIssued, readers, calls, settled, afterFullReset>>

\* ------------------------------------------------------------ specification

\* the application while it is mounted
Next ==
  \/ ClickStartCamera
  \/ ClickRetry
  \/ \E frame \in Frames : ClickScan(frame)
  \/ ClickScanInactive
  \/ TriggerFileUpload
  \/ CancelFileUpload
  \/ \E file \in Files : HandleFileUpload(file)
  \/ \E i \in 1..Len(readers) : ReaderLoad(i)
  \/ HandleFullReset
  \/ GetUserMediaResolves
  \/ \E name \in GumErrorNames : GetUserMediaRejects(name)
  \/ LoadedMetadata
  \/ \E i \in 1..Len(calls), o \in Outcomes : AnalyzeReturns(i, o)
  \/ \E i \in 1..Len(calls), o \in Outcomes : AnalyzeFallback(i, o)
  \/ \E i \in 1..Len(calls), o \in Outcomes : AnalyzeThrows(i, o)

Spec == Init /\ [][Next]_vars

\* The application with its teardown: at any moment the component tree may
\* be unmounted, after which the requests still pending settle.
TeardownNext == Next \/ \E refAttached \in BOOLEAN : Unmount(refAttached)

TeardownSpec == Init /\ [][TeardownNext]_vars

\* ------------------------------------------------- the memory merge alone

\* memories the merge is tried on: Obs(i)..Obs(j) followed by Obs(1)..Obs(k),
\* where that has no repeated entry and fits the cap (every such list is a
\* memory of the application: it is what proposing it to the empty memory
\* leaves)
MergeMemories ==
  {m \in {ObsRun(i, j) \o ObsRun(1, k) : i, j \in 1..NumStr, k \in 0..NumStr} :
     IsUnique(m) /\ Len(m) <= MemoryCap}

\* session_memory lists for the merge: the empty list, every run
\* Obs(i)..Obs(j), a list with a repeated entry, and the list of the
\* specification's scenario E
MergeProposals ==
  {ObsRun(i, j) : i \in 1..NumStr, j \in 0..NumStr}
    \cup {<<Obs(NumStr), Obs(1), Obs(NumStr)>>, <<Obs(2), Obs(4)>>}

MergeInit ==
  /\ memory \in MergeMemories
  /\ isAnalyzing = FALSE
  /\ currentAnalysis = Null
  /\ error = NullStr
  /\ isActive = FALSE
  /\ previewUrl = Null
  /\ permissionError = NullStr
  /\ isInitializing = FALSE
  /\ srcObject = 0
  /\ metadataPending = FALSE
  /\ streams = <<>>
  /\ gumPending = 0
  /\ gumIssued = 0
  /\ mounted = TRUE
  /\ pickerOpen = FALSE
  /\ readers = <<>>
  /\ calls = <<>>
  /\ settled = NothingSettled
  /\ afterFullReset = FALSE
  /\ exitedLive = FALSE

\* handleCapture's try block run once, on a result that carries `proposed`
MergeStep(proposed) ==
  /\ currentAnalysis = Null
  /\ HandleCaptureTry(CallGemini(Responded(JsonObject(proposed))).value)
  /\ UNCHANGED <<hudVars, mediaVars, mounted, pickerOpen, readers, calls, settled,
                 afterFullReset, exitedLive>>

MergeNext == \E proposed \in MergeProposals : MergeStep(proposed)

MergeSpec == MergeInit /\ [][MergeNext]_vars

\* ----------------------------------------------------- callGemini alone

\* values a score can have in a response: absent, null, a number, a numeric
\* string, a string that starts with a number, a string that is no number
Scores ==
  {Undefined, JsonNull, Num("0.7"), Str("0.9"), Str("0.9 (high)"), Str("high")}

\* values of scan_data: absent, null, a string, an object with any scores
ScanDatas ==
  {Undefined, JsonNull, Str("n/a")}
    \cup {[CompleteScanData EXCEPT !.attention_score = a, !.posture_score = p] :
            a, p \in Scores}

\* values of evidence and of logic_steps: absent, null, a list, a string
EvidenceValues ==
  {Undefined, JsonNull, List(<<>>), List(<<Evidence("e1")>>), Str("none")}

\* elements of deductions: an object, or null
DeductionItems(title) ==
  {Deduction(title, e, l) : e, l \in EvidenceValues} \cup {JsonNull}

\* values of deductions: absent, null, a string, a list of one or two
DeductionsValues ==
  {Undefined, JsonNull, Str("none"), List(<<>>)}
    \cup {List(<<d>>) : d \in DeductionItems("d1")}
    \cup {List(<<CompleteDeduction("d1"), d>>) : d \in DeductionItems("d2")}
    \cup {List(<<d, CompleteDeduction("d1")>>) : d \in DeductionItems("d2")}

\* the members of the objects tried: every scan_data with complete
\* deductions, every deductions with a complete scan_data
MembersTried ==
  {[scan_data |-> sd, deductions |-> List(<<CompleteDeduction("d1")>>),
    has_memory |-> FALSE, session_memory |-> <<>>] : sd \in ScanDatas}
    \cup {[scan_data |-> CompleteScanData, deductions |-> ds,
           has_memory |-> FALSE, session_memory |-> <<>>] : ds \in DeductionsValues}

\* the texts an object can come in: bare, in a code fence, between prose,
\* inside an array
ObjectTexts(m) ==
  {<<LBrace, Members(m), RBrace>>,
   <<FenceJson, LBrace, Members(m), RBrace, Fence>>,
   <<Tok("Here is the analysis:"), LBrace, Members(m), RBrace, Tok("Hope this helps")>>,
   <<Tok("["), LBrace, Members(m), RBrace, Tok("]")>>}

\* texts without a pair of braces, and texts whose braces do not match up
OtherTexts ==
  {<<>>, <<LBrace, RBrace>>,
   <<Tok("[]")>>, <<Tok("null")>>, <<Tok("42")>>, <<Tok("I cannot comply")>>,
   <<FenceJson, Tok("[]"), Fence>>, <<FenceJson, Tok("null"), Fence>>,
   <<LBrace, Members(EmptyMembers)>>, <<Members(EmptyMembers), RBrace>>,
   <<RBrace, Tok("[]"), LBrace>>,
   <<LBrace, Members(EmptyMembers), RBrace, LBrace, Members(EmptyMembers), RBrace>>}

ResponseTexts == UNION {ObjectTexts(m) : m \in MembersTried} \cup OtherTexts

\* a capture is waiting on its primary request: the state the application
\* is in after START CAMERA FEED, the stream's loadedmetadata and one scan
CallGeminiInit ==
  /\ isAnalyzing = TRUE
  /\ currentAnalysis = Null
  /\ error = NullStr
  /\ memory = <<>>
  /\ isActive = FALSE
  /\ previewUrl = FrameUrl(Frame("frame1", 1280, 720))
  /\ permissionError = NullStr
  /\ isInitializing = FALSE
  /\ srcObject = 0
  /\ metadataPending = FALSE
  /\ streams = <<"stopped">>
  /\ gumPending = 0
  /\ gumIssued = 1
  /\ mounted = TRUE
  /\ pickerOpen = FALSE
  /\ readers = <<>>
  /\ calls = <<AnalyzeEvidence("frame1", sessionId, RenderArray(<<>>))>>
  /\ settled = NothingSettled
  /\ afterFullReset = FALSE
  /\ exitedLive = FALSE

CallGeminiNext ==
  \/ \E i \in 1..Len(calls), text \in ResponseTexts :
        AnalyzeReturns(i, Responded([text |-> text]))
  \/ \E i \in 1..Len(calls), text \in ResponseTexts :
        AnalyzeThrows(i, Responded([text |-> text]))

CallGeminiSpec == CallGeminiInit /\ [][CallGeminiNext]_vars

\* ------------------------------------------------------- handleScan alone

\* widths and heights a video source can have
VideoDims == {1, 2, 480, 640, 720, 1023, 1024, 1025, 1080, 1280, 1920, 3840}

\* frames of every such size, landscape, square and portrait
ScaleFrames == {Frame("frame1", w, h) : w, h \in VideoDims}

\* the camera is active: the state the application is in after START CAMERA
\* FEED and the stream's loadedmetadata
ScaleInit ==
  /\ isAnalyzing = FALSE
  /\ currentAnalysis = Null
  /\ error = NullStr
  /\ memory = <<>>
  /\ isActive = TRUE
  /\ previewUrl = Null
  /\ permissionError = NullStr
  /\ isInitializing = FALSE
  /\ srcObject = 1
  /\ metadataPending = FALSE
  /\ streams = <<"live">>
  /\ gumPending = 0
  /\ gumIssued = 1
  /\ mounted = TRUE
  /\ pickerOpen = FALSE
  /\ readers = <<>>
  /\ calls = <<>>
  /\ settled = NothingSettled
  /\ afterFullReset = FALSE
  /\ exitedLive = FALSE

\* one scan of a frame of any size
ScaleNext == \E frame \in ScaleFrames : ClickScan(frame)

ScaleSpec == ScaleInit /\ [][ScaleNext]_vars

\* ------------------------------------------- handleScan in every HUD state

\* the request of the capture of the one frame of Frames, taken with an
\* empty memory
CapturedFrame == CHOOSE frame \in Frames : TRUE
CaptureCall == AnalyzeEvidence(SplitData(FrameUrl(CapturedFrame)), sessionId,
                               RenderArray(<<>>))

\* how that request's invocation settled: with a result, with an error
ResultSettled ==
  [log |-> Settle(CaptureCall, Responded(JsonObjectNoMemory)),
   result |-> CallGemini(Responded(JsonObjectNoMemory))]
ErrorSettled ==
  [log |-> Settle(CaptureCall, Rejected(ApiError(0, {"fetch failed"}))),
   result |-> CallGemini(Rejected(ApiError(0, {"fetch failed"})))]

\* the application as constructed: the landing screen
LandingState ==
  [isAnalyzing |-> FALSE, currentAnalysis |-> Null, error |-> NullStr,
   memory |-> <<>>, isActive |-> FALSE, previewUrl |-> Null,
   permissionError |-> NullStr, isInitializing |-> FALSE, srcObject |-> 0,
   metadataPending |-> FALSE, streams |-> <<>>, gumPending |-> 0,
   gumIssued |-> 0, mounted |-> TRUE, pickerOpen |-> FALSE, readers |-> <<>>,
   calls |-> <<>>, settled |-> NothingSettled, afterFullReset |-> FALSE,
   exitedLive |-> FALSE]

\* after START CAMERA FEED and the stream's loadedmetadata
LiveState ==
  [LandingState EXCEPT !.isActive = TRUE, !.srcObject = 1,
                       !.streams = <<"live">>, !.gumIssued = 1]

\* after LOAD EVIDENCE, a file picked and read
StaticState(file) ==
  [LandingState EXCEPT !.previewUrl = FileUrl(file), !.exitedLive = TRUE]

\* after a scan of the live video, its request pending
AnalyzingState ==
  [LiveState EXCEPT !.isActive = FALSE, !.srcObject = 0,
                    !.streams = <<"stopped">>,
                    !.previewUrl = FrameUrl(CapturedFrame),
                    !.isAnalyzing = TRUE, !.calls = <<CaptureCall>>]

\* after that request returned a result
ResultState ==
  [AnalyzingState EXCEPT !.isAnalyzing = FALSE, !.calls = <<>>,
                         !.currentAnalysis = ResultSettled.result.value,
                         !.settled = ResultSettled]

\* after that request failed
ErrorState ==
  [AnalyzingState EXCEPT !.isAnalyzing = FALSE, !.calls = <<>>,
                         !.error = GenericMessage,
                         !.settled = ErrorSettled]

\* the HUD states handleScan is run in
HandleScanEntries ==
  {LandingState, LiveState, AnalyzingState, ResultState, ErrorState}
    \cup {StaticState(file) : file \in Files}

HandleScanInit ==
  \E entry \in HandleScanEntries :
    /\ isAnalyzing = entry.isAnalyzing
    /\ currentAnalysis = entry.currentAnalysis
    /\ error = entry.error
    /\ memory = entry.memory
    /\ isActive = entry.isActive
    /\ previewUrl = entry.previewUrl
    /\ permissionError = entry.permissionError
    /\ isInitializing = entry.isInitializing
    /\ srcObject = entry.srcObject
    /\ metadataPending = entry.metadataPending
    /\ streams = entry.streams
    /\ gumPending = entry.gumPending
    /\ gumIssued = entry.gumIssued
    /\ mounted = entry.mounted
    /\ pickerOpen = entry.pickerOpen
    /\ readers = entry.readers
    /\ calls = entry.calls
    /\ settled = entry.settled
    /\ afterFullReset = entry.afterFullReset
    /\ exitedLive = entry.exitedLive

\* handleScan is run, whatever the interface shows
RunHandleScan(frame) ==
  /\ mounted
  /\ HandleScan(frame)
  /\ UNCHANGED <<afterFullReset, exitedLive>>

HandleScanNext == \E frame \in ScaleFrames : RunHandleScan(frame)

HandleScanSpec == HandleScanInit /\ [][HandleScanNext]_vars

\* ------------------------------------------------------------------ claims

\* every request log there is: of the pending invocations and of the one
\* that settled last
Logs == {calls[i].log : i \in 1..Len(calls)} \cup {settled.log}

\* the primary call of this log has failed, and with which error
PrimaryFailed(log) == Len(log) >= 1 /\ log[1].outcome.kind # "pending"
                        /\ ~CallGemini(log[1].outcome).ok
PrimaryError(log) == CallGemini(log[1].outcome).err

\* the retryable condition as the claim words it
Retryable(err) ==
  \/ err.status = 429 \/ "RESOURCE_EXHAUSTED" \in err.message
  \/ err.status = 400 \/ "INVALID_ARGUMENT" \in err.message

\* C1: the secondary model is called if and only if the primary call failed
\* with a retryable condition (429 / RESOURCE_EXHAUSTED, 400 /
\* INVALID_ARGUMENT); after any other primary failure there is no secondary
\* call and the caller receives the primary's error.
C1_FallbackIffRetryable ==
  /\ \A log \in Logs :
        Len(log) = 2 <=> (PrimaryFailed(log) /\ Retryable(PrimaryError(log)))
  /\ (PrimaryFailed(settled.log) /\ ~Retryable(PrimaryError(settled.log)))
        => settled.result = Throw(PrimaryError(settled.log))

\* an invocation fell back after a 400 and has settled, and another one is
\* waiting on its primary request
C1_Witness ==
  /\ Len(settled.log) = 2
  /\ PrimaryError(settled.log).status = 400
  /\ \E i \in 1..Len(calls) : Len(calls[i].log) = 1

\* C2: an invocation makes at most two requests: the primary first, then at
\* most one to the secondary, only after the primary failed and with the same
\* image, MIME type and prompt; when the secondary succeeds the caller gets
\* its normalized output.
C2_AtMostOneFallbackSamePayload ==
  /\ \A log \in Logs \ {<<>>} :
        /\ Len(log) <= 2
        /\ log[1].model = PrimaryModel
        /\ Len(log) = 2 =>
              /\ PrimaryFailed(log)
              /\ log[2].model = SecondaryModel
              /\ log[2].data = log[1].data
              /\ log[2].mimeType = log[1].mimeType
              /\ log[2].prompt = log[1].prompt
  /\ (Len(settled.log) = 2 /\ settled.log[2].outcome.kind = "response"
        /\ settled.log[2].outcome.resp \in {JsonObject(p) : p \in Proposals})
       => settled.result =
            Return(Normalize(Parsed("object", settled.log[2].outcome.resp.text[2].members)))

\* a fallback succeeded and its result, with a memory list, was returned
C2_Witness ==
  /\ Len(settled.log) = 2
  /\ settled.result.ok
  /\ settled.result.value.has_memory
  /\ settled.log[2].data \in {frame.data : frame \in Frames}

\* both requests of the invocation that settled last failed for capacity
BothQuota(log) ==
  /\ Len(log) = 2
  /\ log[1].outcome.kind = "error" /\ IsQuotaError(log[1].outcome.err)
  /\ log[2].outcome.kind = "error" /\ IsQuotaError(log[2].outcome.err)

\* C3: when the primary and the fallback both fail with 429 /
\* RESOURCE_EXHAUSTED, the message handleCapture shows is the quota message.
\* (`error` is non-null only while the message of the last failure is shown.)
C3_BothQuotaShowsQuotaMessage ==
  (BothQuota(settled.log) /\ error # NullStr) => error = QuotaMessage

\* C4: no step of a capture that fails changes the memory: not its start,
\* not its fallback, not its catch block.
C4_FailedCaptureKeepsMemory ==
  [][(calls' # calls /\ ~(Len(calls') < Len(calls) /\ settled'.result.ok))
       => memory' = memory]_vars

\* a capture has failed while the memory held entries
C4_Witness ==
  /\ Len(settled.log) >= 1
  /\ ~settled.result.ok
  /\ error = GenericMessage
  /\ memory # <<>>

\* C5: the memory never holds more than 10 entries nor the same entry twice.
C5_MemoryBoundedUnique == Len(memory) <= 10 /\ IsUnique(memory)

\* a merge overflowed: the memory is full and its oldest entry is not the
\* first one proposed
C5_Witness ==
  /\ Len(memory) = 10
  /\ memory[1] # Obs(1)
  /\ currentAnalysis # Null
  /\ currentAnalysis.has_memory
  /\ Len(currentAnalysis.session_memory) > 10

\* the index at which x first occurs in s
FirstIndex(s, x) == CHOOSE i \in 1..Len(s) : s[i] = x /\ \A j \in 1..(i - 1) : s[j] # x

\* the entries of proposed that prev does not hold, each once, in the order
\* in which proposed first shows them
NewEntries(prev, proposed) ==
  LET new == Range(proposed) \ Range(prev)
      before(x) == {y \in new : FirstIndex(proposed, y) < FirstIndex(proposed, x)}
  IN [k \in 1..Cardinality(new) |-> CHOOSE x \in new : Cardinality(before(x)) = k - 1]

\* the last 10 elements of s
LastTen(s) ==
  LET drop == IF Len(s) <= 10 THEN 0 ELSE Len(s) - 10
  IN [k \in 1..(Len(s) - drop) |-> s[k + drop]]

\* C6 as stated: merging the same proposal a second time changes nothing,
\* merge(merge(M, P), P) = merge(M, P), for every memory M and proposal P.
C6_MergeIdempotent ==
  [][Merge(memory', currentAnalysis'.session_memory) = memory']_vars

\* C6 as amended: merging the same proposal a second time changes nothing
\* exactly when the first merge kept every entry of the proposal (as it does
\* whenever M and P together hold at most 10 distinct entries).
C6_MergeIdempotentIffRetained ==
  [][(Merge(memory', currentAnalysis'.session_memory) = memory')
       <=> (Range(currentAnalysis'.session_memory) \subseteq Range(memory'))]_vars

\* a merge left a full memory that holds every entry of a proposal of
\* several entries, one of them already present before
C6_Witness ==
  /\ currentAnalysis # Null
  /\ Len(memory) = 10
  /\ Len(currentAnalysis.session_memory) >= 2
  /\ Range(currentAnalysis.session_memory) \subseteq Range(memory)
  /\ memory[10] = currentAnalysis.session_memory[Len(currentAnalysis.session_memory)]
  /\ memory[9] # currentAnalysis.session_memory[1]

\* C7: the merged memory is the last 10 elements of M followed by the
\* entries of P not in M, each once, in first-seen order; [a,b,c] merged with
\* [b,d] is [a,b,c,d].
C7_MergeIsUnionThenLastTen ==
  [][/\ memory' = LastTen(memory \o NewEntries(memory, currentAnalysis'.session_memory))
     /\ (memory = <<Obs(1), Obs(2), Obs(3)>>
           /\ currentAnalysis'.session_memory = <<Obs(2), Obs(4)>>)
          => memory' = <<Obs(1), Obs(2), Obs(3), Obs(4)>>]_vars

\* scenario E has been merged
C7_Witness ==
  /\ currentAnalysis # Null
  /\ currentAnalysis.session_memory = <<Obs(2), Obs(4)>>
  /\ memory = <<Obs(1), Obs(2), Obs(3), Obs(4)>>

\* C8: at most one analyzeEvidence call is pending at any time.
C8_AtMostOneInFlight == Len(calls) <= 1

\* C9: after a full reset, until the user starts the camera, picks a file or
\* scans, no result and no preview is shown and no stream is attached or
\* active.
C9_FullResetStaysIdle ==
  afterFullReset =>
    /\ currentAnalysis = Null
    /\ previewUrl = Null
    /\ ~isActive
    /\ srcObject = 0

\* C10: when handleScan emits a capture in live mode no stream is open.
C10_NoStreamOpenAtCapture ==
  [][Len(calls') > Len(calls)
       => \A s \in 1..Len(streams') : streams'[s] = "stopped"]_vars

\* C11: once the HUD has left live mode (full reset, file upload or
\* teardown) and no getUserMedia request is pending any more, every stream
\* getUserMedia produced has been stopped.
C11_NoStreamLeftAfterExit ==
  (exitedLive /\ gumPending = 0) =>
     \A s \in 1..Len(streams) : streams[s] = "stopped"

\* the preview on screen is the data URL of an uploaded file
UploadPreviewLoaded == \E file \in Files : previewUrl = FileUrl(file)

\* C12: live and static mode exclude each other: never is a stream active
\* or attached to the video element while the preview of an uploaded file
\* is loaded.
C12_LiveStaticExclusive ==
  ~((isActive \/ srcObject # 0) /\ UploadPreviewLoaded)

\* C13: the session value in the prompt of every model request is the
\* App's sessionId token.
C13_PromptCarriesSessionId ==
  \A log \in Logs : \A k \in 1..Len(log) :
     log[k].prompt = Prompt(RenderString(sessionId))

\* the text callGemini worked on in the call that settled last, that text
\* without its code fences, and what the extraction and JSON.parse made of it
SettledResponse == settled.log[Len(settled.log)].outcome.resp
SettledText == StripFences(ResponseText(SettledResponse))
SettledParsed == JsonParse(ExtractJson(ResponseText(SettledResponse)))
Returned == Len(settled.log) >= 1 /\ settled.result.ok

\* C14: in every result callGemini returns, scan_data is there and both
\* scores are numbers; an absent scan_data gives the neutral default; a score
\* that is absent from scan_data or is no number gives 0.5.
C14_ScanDataNormalized ==
  Returned =>
    LET given == SettledParsed.members.scan_data
        scan_data == settled.result.value.scan_data
    IN /\ scan_data.t = "object"
       /\ scan_data.attention_score.t = "number"
       /\ scan_data.posture_score.t = "number"
       /\ Falsy(given) => scan_data = DefaultScanData
       /\ (given.t = "object" /\ given.attention_score.t \in {"undefined", "null"})
            => scan_data.attention_score = Num("0.5")
       /\ (given.t = "object" /\ given.posture_score = Str("high"))
            => scan_data.posture_score = Num("0.5")

C16_CaptureEndsWithResultOrError ==
  /\ [](isAnalyzing => calls # <<>>)
  /\ [][Len(calls') < Len(calls) =>
          /\ ~isAnalyzing'
          /\ IF settled'.result.ok
             THEN currentAnalysis' = settled'.result.value /\ currentAnalysis' # Null
             ELSE error' \in {QuotaMessage, GenericMessage}]_vars

\* both models failed, the cycle is over and the failure is on screen
C16_Witness ==
  /\ mounted
  /\ Len(settled.log) = 2
  /\ ~settled.result.ok
  /\ ~isAnalyzing
  /\ currentAnalysis = Null
  /\ error = GenericMessage
  /\ calls = <<>>

\* C17: in static mode (the preview of an uploaded file is loaded, no stream
\* is active, no analysis is in flight, no result is shown) a click on the
\* round button emits one capture that carries the file's bytes, keeps the
\* preview and opens no camera.
C17_StaticScanCaptures ==
  [][(/\ UploadPreviewLoaded /\ ~isActive /\ ~isAnalyzing
      /\ currentAnalysis = Null
      /\ ClickScanInactive)
       => /\ Len(calls') = Len(calls) + 1
          /\ calls'[Len(calls')].data = SplitData(previewUrl)
          /\ previewUrl' = previewUrl
          /\ gumPending' = gumPending]_vars

\* C19: a getUserMedia rejection puts the HUD in PermissionError
\* (permissionError set, isActive and isInitializing false); while
\* permissionError is set a getUserMedia request is issued only by Retry
\* Connection, and any request is issued only by a click; a request that
\* resolves attaches its stream, whose loadedmetadata makes the HUD active.
C19_DenialIsTerminalUntilRetry ==
  [][/\ (gumPending' < gumPending /\ Len(streams') = Len(streams))
          => /\ permissionError' \in {"Permission Denied", "Hardware Failure"}
             /\ ~isActive'
             /\ ~isInitializing'
     /\ (gumIssued' > gumIssued /\ permissionError # NullStr)
          => /\ ClickRetry
             /\ permissionError' = NullStr
             /\ isInitializing'
             /\ gumPending' = gumPending + 1
     /\ gumIssued' > gumIssued
          => (ClickStartCamera \/ ClickRetry \/ ClickScanInactive)
     /\ (gumPending' < gumPending /\ Len(streams') > Len(streams))
          => (srcObject' = Len(streams') /\ metadataPending')
     /\ (metadataPending /\ ~metadataPending' /\ srcObject' # 0)
          => (isActive' /\ ~isInitializing')]_vars

\* a first request was rejected, the user retried, and the retry's stream
\* is active
C19_Witness ==
  /\ gumIssued = 2
  /\ gumPending = 0
  /\ Len(streams) = 1
  /\ srcObject = 1
  /\ isActive
  /\ permissionError = NullStr

\* C18: when the response text without its code fences has no '{' or no
\* '}', callGemini throws the malformed-response error.
C18_BraceFreeTextFails ==
  (/\ Len(settled.log) >= 1
   /\ SettledResponse.text # <<>>
   /\ (IndexOf(SettledText, LBrace) = -1 \/ LastIndexOf(SettledText, RBrace) = -1))
    => settled.result = Throw(IncoherentError)

\* C20: for every size of the source video the scale factor handleScan
\* computes is at most 1 and the canvas it draws on, which the captured
\* raster has the size of, is at most 1024 wide and at most 1024 high.
C20_RasterWithin1024 ==
  [][\A frame \in ScaleFrames :
       ClickScan(frame) =>
         /\ Scale(frame.videoWidth).num <= Scale(frame.videoWidth).den
         /\ previewUrl'.width <= 1024
         /\ previewUrl'.height <= 1024]_vars

ScanIgnored ==
  isAnalyzing \/ (~isActive /\ (previewUrl = Null \/ currentAnalysis # Null))

\* no stream, a preview on screen and no result: the static preview scan
StaticScan ==
  ~isAnalyzing /\ ~isActive /\ previewUrl # Null /\ currentAnalysis = Null

SettledSnapshot == settled.log[1].prompt.session

\* C22: every result that comes back is merged into the memory current at
\* its completion, not into the one its capture started with; so when two
\* analyses are pending together and both succeed, in either order of
\* completion the final memory is the two merges applied one after the other.
C22_MergeReadsLatestMemory ==
  [][(Len(calls') < Len(calls) /\ settled'.result.ok) =>
       memory' = IF settled'.result.value.has_memory
                 THEN Merge(memory, settled'.result.value.session_memory)
                 ELSE memory]_vars

\* two analyses that began with the empty memory have both come back; the
\* memory is the second result merged into the first's, which differs from
\* the second result merged into the memory its capture began with
C22_Witness ==
  /\ calls = <<>>
  /\ Returned
  /\ settled.result.value.has_memory
  /\ SettledSnapshot = <<>>
  /\ \E first \in Proposals :
       memory = Merge(Merge(<<>>, first), settled.result.value.session_memory)
  /\ memory # Merge(SettledSnapshot, settled.result.value.session_memory)

\* C23: in every reachable state currentAnalysis and error are not both
\* non-null.
C23_ResultAndErrorExclusive == ~(currentAnalysis # Null /\ error # NullStr)

====
